---------------------------- MODULE Spec2Model ----------------------------
(***************************************************************************)
(* A model of pyqmc's Ewald summation (src/pyqmc/ewald.py): the Ewald      *)
(* object, its one-time setup and its four evaluation operations.          *)
(*                                                                         *)
(* Numbers.  Energies are fixed-point, in units of 1e-6, and every         *)
(* tabulated value is even, so that the halvings of the code (/ 2, - 0.5)  *)
(* are exact.  A float is an "extended number" <<class, value>>: a finite  *)
(* value, an infinity with its sign, or NaN, with IEEE-754 arithmetic      *)
(* (x/0 = inf, inf - inf = NaN, 0 * inf = NaN): NumPy raises nothing on    *)
(* these, it only warns.  Rounding error is not modelled.                  *)
(*                                                                         *)
(* Geometry.  Positions lie on an integer grid.  The lattice is diagonal,  *)
(* latvec = diag(a, b, c) in grid units; an axis of grid length 0 is       *)
(* either exactly 0.0 or, when listed in cell.sub, a positive subnormal    *)
(* length (such as 1e-310), whose reciprocal overflows.  With a cubic cell *)
(* of side 4, G.x is a multiple of pi/2 and exp(i G.x) is one of           *)
(* 1, i, -1, -i: the reciprocal sums are exact Gaussian integers.          *)
(***************************************************************************)
EXTENDS Integers, Sequences, FiniteSets, TLC

VARIABLES
    cell,       \* the constructor's argument: lattice, ions, charges
    status,     \* "new", "ready", or the exception __init__ ended in
    ewald,      \* the setup attributes of the Ewald object (self.*)
    separated,  \* self.ei_separated, self.ee_separated, self.ewalde_separated
    configs,    \* the caller's configuration array (shape and data)
    epos,       \* the caller's test-position array
    ret,        \* what the most recent call returned or raised
    lastfull,   \* history: the batch of the most recent full evaluation
    seen,       \* history: one earlier call, remembered for comparison
    universe    \* the cells and batch sizes in use, and whether seen is kept

vars == <<cell, status, ewald, separated, configs, epos, ret, lastfull, seen, universe>>

-----------------------------------------------------------------------------
(* The constructor's arguments and the bounds of the model *)

\* nlatvec handed to the constructor: its default
NLatVec == 2
\* ewald_gmax handed to the constructor (the program's default is 200)
GMax == 1
\* the largest number of configurations in a batch
MaxConf == 2
\* the largest number of mobile particles in a configuration
MaxElec == 2
\* the largest number of positions (nconf * nelec) in a batch, where batches
\* of several configurations of several particles are wanted
MaxParticles == 4

-----------------------------------------------------------------------------
(* IEEE-754 doubles as extended fixed-point numbers *)

Fin(n) == <<"fin", n>>
PosInf == <<"inf", 1>>
NegInf == <<"inf", -1>>
NaN == <<"nan", 0>>

IsFin(a) == a[1] = "fin"

\* a + b
XAdd(a, b) ==
    IF a[1] = "nan" \/ b[1] = "nan" THEN NaN
    ELSE IF a[1] = "inf"
         THEN (IF b[1] = "inf" /\ b[2] # a[2] THEN NaN ELSE a)
    ELSE IF b[1] = "inf" THEN b
    ELSE Fin(a[2] + b[2])

\* n * a for an integer n
XScale(n, a) ==
    IF a[1] = "nan" THEN NaN
    ELSE IF a[1] = "inf"
         THEN (IF n = 0 THEN NaN ELSE IF n > 0 THEN a ELSE <<"inf", -a[2]>>)
    ELSE Fin(n * a[2])

\* a / 2 (finite values are even)
XHalf(a) == IF a[1] = "fin" THEN Fin(a[2] \div 2) ELSE a

\* an array as NumPy holds it: its entries are computed once, when it is made
Row(f) == f \o <<>>
Array2(f) == [k \in DOMAIN f |-> Row(f[k])] \o <<>>

\* a.sum() over a one-dimensional array of extended numbers, by halves as
\* NumPy's pairwise summation (the additions here are exact, so the order
\* does not change the sum)
RECURSIVE XSumTo(_, _, _)
XSumTo(s, lo, hi) ==
    IF lo > hi THEN Fin(0)
    ELSE IF lo = hi THEN s[lo]
    ELSE XAdd(XSumTo(s, lo, (lo + hi) \div 2), XSumTo(s, (lo + hi) \div 2 + 1, hi))
XSumSeq(s) == LET a == Row(s) IN XSumTo(a, 1, Len(a))

\* the same for integers
RECURSIVE SumTo(_, _, _)
SumTo(s, lo, hi) ==
    IF lo > hi THEN 0
    ELSE IF lo = hi THEN s[lo]
    ELSE SumTo(s, lo, (lo + hi) \div 2) + SumTo(s, (lo + hi) \div 2 + 1, hi)
SumSeq(s) == LET a == Row(s) IN SumTo(a, 1, Len(a))

-----------------------------------------------------------------------------
(* Vectors and complex numbers *)

Add3(u, v) == <<u[1] + v[1], u[2] + v[2], u[3] + v[3]>>
Sub3(u, v) == <<u[1] - v[1], u[2] - v[2], u[3] - v[3]>>
Dot3(u, v) == u[1] * v[1] + u[2] * v[2] + u[3] * v[3]
Norm2(v) == Dot3(v, v)

\* np.exp(1j * x) for x = p * pi/2, as <<re, im>>
CExp(p) ==
    CASE p % 4 = 0 -> <<1, 0>>
      [] p % 4 = 1 -> <<0, 1>>
      [] p % 4 = 2 -> <<-1, 0>>
      [] OTHER     -> <<0, -1>>

CAdd(z, w) == <<z[1] + w[1], z[2] + w[2]>>
CScale(n, z) == <<n * z[1], n * z[2]>>
\* np.real(z.conj() * w)
ReConjMul(z, w) == z[1] * w[1] + z[2] * w[2]
\* np.abs(z) ** 2
Abs2(z) == z[1] * z[1] + z[2] * z[2]

RECURSIVE CSumTo(_, _, _)
CSumTo(s, lo, hi) ==
    IF lo > hi THEN <<0, 0>>
    ELSE IF lo = hi THEN s[lo]
    ELSE CAdd(CSumTo(s, lo, (lo + hi) \div 2), CSumTo(s, (lo + hi) \div 2 + 1, hi))
CSumSeq(s) == LET a == Row(s) IN CSumTo(a, 1, Len(a))

-----------------------------------------------------------------------------
(* The cell handed to the constructor *)

\* the one well-formed lattice of the model: cubic, side 4 grid units
CubicLattice == [latvec |-> <<4, 4, 4>>, sub |-> {}]
\* a singular lattice: the third lattice vector is exactly zero
SingularLattice == [latvec |-> <<4, 4, 0>>, sub |-> {}]
\* a nearly flat lattice: the third lattice vector has a subnormal length
SubnormalLattice == [latvec |-> <<4, 4, 0>>, sub |-> {3}]

Lattices == {CubicLattice, SingularLattice, SubnormalLattice}

\* one fixed particle, or two of charge +1 a short distance apart along z
IonSets ==
    { [atom_coords |-> << <<0, 0, 0>> >>, atom_charges |-> <<1>>],
      [atom_coords |-> << <<0, 0, 0>>, <<0, 0, 1>> >>, atom_charges |-> <<1, 1>>] }

Cells ==
    { [latvec |-> l.latvec, sub |-> l.sub,
       atom_coords |-> a.atom_coords, atom_charges |-> a.atom_charges] :
      l \in Lattices, a \in IonSets }

\* zero or near-zero smallest cell height
Degenerate(c) == \E ax \in 1..3 : c.latvec[ax] = 0

-----------------------------------------------------------------------------
(* Setup: Ewald.__init__ and what it calls *)

\* row t of np.stack(np.meshgrid(*[np.arange(-n, n + 1)] * 3, indexing="ij"),
\* axis=-1).reshape((-1, 3))
MeshRow(t, n) ==
    LET w == 2 * n + 1
        q == t - 1
    IN  <<(q \div (w * w)) - n, ((q \div w) % w) - n, (q % w) - n>>

MeshGrid(n) == [t \in 1..((2 * n + 1) * (2 * n + 1) * (2 * n + 1)) |-> MeshRow(t, n)]

\* np.dot(xyz, self.latvec) for a diagonal latvec
set_lattice_displacements(nlatvec, latvec) ==
    LET xyz == MeshGrid(nlatvec)
    IN  [t \in DOMAIN xyz |->
            <<xyz[t][1] * latvec[1], xyz[t][2] * latvec[2], xyz[t][3] * latvec[3]>>]

\* np.linalg.inv(self.latvec) raises LinAlgError on an exactly zero pivot
InvRaises(c) == \E ax \in 1..3 : c.latvec[ax] = 0 /\ ax \notin c.sub

\* np.abs(tmpheight_i) / length_i for axis ax: of a subnormal axis, 1/length
\* overflows, tmpheight and length are both inf, and inf / inf is NaN
CellHeight(c, ax) == IF ax \in c.sub THEN NaN ELSE Fin(c.latvec[ax])

\* np.amin of two values: NaN propagates
XMin(a, b) ==
    IF a[1] = "nan" \/ b[1] = "nan" THEN NaN
    ELSE IF a[2] <= b[2] THEN a ELSE b

smallestheight(c) == XMin(CellHeight(c, 1), XMin(CellHeight(c, 2), CellHeight(c, 3)))

\* self.alpha = 5.0 / smallestheight, in hundredths; 5.0 / 0.0 is inf
Alpha(c) ==
    LET h == smallestheight(c)
    IN  IF h[1] = "nan" THEN NaN
        ELSE IF h[2] = 0 THEN PosInf
        ELSE Fin(500 \div h[2])

\* a faulty half-space test that looks at X alone
positive_octants_x_only(m) == m[1] > 0

\* X + 1e-6 * Y + 1e-12 * Z > 0, for |Y|, |Z| < 1e5: the terms in Y and Z
\* are smaller than 1 in size, so a non-zero X decides
positive_octants(m) ==
    IF m[1] # 0 THEN m[1] > 0 ELSE m[2] * 1000000 + m[3] > 0

\* gweight before the cut, for the integer triple m:
\* 4 pi exp(-G^2 / (4 alpha^2)) / (V G^2) with G = 2 pi m / 4, V = 64,
\* alpha = 1.25, tabulated by |m|^2
WeightTable(m2) ==
    CASE m2 = 1 -> 53622 [] m2 = 2 -> 18066 [] m2 = 3 -> 8116
      [] m2 = 4 -> 4102 [] m2 = 5 -> 2210 [] m2 = 6 -> 1242
      [] m2 = 8 -> 422 [] m2 = 9 -> 254 [] m2 = 10 -> 154
      [] m2 = 11 -> 94 [] m2 = 12 -> 58 [] m2 = 13 -> 36
      [] m2 = 14 -> 22 [] m2 = 16 -> 8 [] m2 = 17 -> 6
      [] m2 = 18 -> 4 [] m2 = 19 -> 2 [] m2 = 20 -> 2
      [] OTHER -> 0

GWeightOf(c, alpha, m) ==
    CASE alpha[1] = "nan" -> NaN
      [] alpha = Fin(125) /\ c.latvec = <<4, 4, 4>> ->
            IF Norm2(m) = 0 THEN PosInf ELSE Fin(WeightTable(Norm2(m)))

\* bigweight = gweight > 1e-10: false for NaN; a weight that rounds to 0
\* adds nothing to any sum
bigweight(w) == w[1] = "fin" /\ w[2] > 0

\* the integer triples of self.gpoints (G = 2 pi m . recvec), in array order
GPoints(c, alpha, ewald_gmax) ==
    LET xyz == MeshGrid(ewald_gmax)
        keep(m) == positive_octants(m) /\ bigweight(GWeightOf(c, alpha, m))
    IN  SelectSeq(xyz, keep)

\* self.gweight, aligned with self.gpoints
GWeights(c, alpha, gpoints) ==
    [g \in DOMAIN gpoints |-> GWeightOf(c, alpha, gpoints[g])[2]]

\* G . x in units of pi/2, for G = 2 pi m / latvec and a grid position x
GdotR(latvec, m, x) ==
    (m[1] * x[1] * (4 \div latvec[1]) + m[2] * x[2] * (4 \div latvec[2])
       + m[3] * x[3] * (4 \div latvec[3])) % 4

\* erfc(self.alpha * r) / r for r^2 = r2: 1/0 is inf, erfc(NaN) is NaN;
\* tabulated for alpha = 1.25, and below 5e-7 from r = 3 on
ErfcOverR(alpha, r2) ==
    CASE alpha[1] = "nan" -> NaN
      [] alpha = Fin(125) ->
            CASE r2 = 0 -> PosInf
              [] r2 = 1 -> Fin(77100) [] r2 = 2 -> Fin(8782)
              [] r2 = 3 -> Fin(1270) [] r2 = 4 -> Fin(204)
              [] r2 = 5 -> Fin(34) [] r2 = 6 -> Fin(6)
              [] r2 = 7 -> Fin(2)
              [] OTHER -> Fin(0)

\* ijconst = -pi / (cellvolume * alpha^2)
IJConst(c, alpha) ==
    CASE alpha[1] = "nan" -> NaN
      [] alpha = Fin(125) /\ c.latvec = <<4, 4, 4>> -> Fin(-31416)

\* -alpha / sqrt(pi)
MinusAlphaOverSqrtPi(alpha) ==
    CASE alpha[1] = "nan" -> NaN
      [] alpha = Fin(125) -> Fin(-705236)

-----------------------------------------------------------------------------
(* The distance primitives of pyqmc.distance.MinimalImageDistance *)

\* the image of v nearest the origin, for a diagonal lattice
MinimalImage(v, latvec) ==
    [ax \in 1..3 |->
        IF latvec[ax] = 0 THEN v[ax]
        ELSE ((v[ax] + latvec[ax] \div 2) % latvec[ax]) - latvec[ax] \div 2]

\* the index pairs (i, j), i < j, of dist_matrix
PairInds(n) ==
    SelectSeq([t \in 1..(n * n) |-> <<((t - 1) \div n) + 1, ((t - 1) % n) + 1>>],
              LAMBDA p : p[1] < p[2])

\* sum over the lattice images of erfc(alpha r) / r, r = |d + displacement|
RealSum(ew, d) ==
    XSumSeq([l \in DOMAIN ew.lattice_displacements |->
                ErfcOverR(ew.alpha, Norm2(Add3(d, ew.lattice_displacements[l])))])

-----------------------------------------------------------------------------
(* Ewald.ewald_ion and Ewald.set_ewald_constants *)

\* self.ion_exp = np.dot(np.exp(1j * GdotR), self.atom_charges)
IonExp(c, gpoints) ==
    [g \in DOMAIN gpoints |->
        CSumSeq([I \in DOMAIN c.atom_coords |->
                    CScale(c.atom_charges[I],
                           CExp(GdotR(c.latvec, gpoints[g], c.atom_coords[I])))])]

\* a faulty real-space part without the case of one fixed particle, with the
\* sum over the pairs taken over I <= J
ion_ion_real_all_pairs(c, ew) ==
    LET n == Len(c.atom_charges)
        ion_inds == SelectSeq([t \in 1..(n * n) |->
                                  <<((t - 1) \div n) + 1, ((t - 1) % n) + 1>>],
                              LAMBDA p : p[1] <= p[2])
    IN  XSumSeq([p \in DOMAIN ion_inds |->
            XScale(c.atom_charges[ion_inds[p][1]] * c.atom_charges[ion_inds[p][2]],
                   RealSum(ew, MinimalImage(Sub3(c.atom_coords[ion_inds[p][1]],
                                                 c.atom_coords[ion_inds[p][2]]),
                                            c.latvec)))])

\* the real-space part of ewald_ion
ion_ion_real(c, ew) ==
    IF Len(c.atom_charges) = 1 THEN Fin(0)
    ELSE LET ion_inds == PairInds(Len(c.atom_charges))
         IN  XSumSeq([p \in DOMAIN ion_inds |->
                 XScale(c.atom_charges[ion_inds[p][1]] * c.atom_charges[ion_inds[p][2]],
                        RealSum(ew, MinimalImage(Sub3(c.atom_coords[ion_inds[p][1]],
                                                      c.atom_coords[ion_inds[p][2]]),
                                                 c.latvec)))])

\* the reciprocal-space part of ewald_ion
ion_ion_rec(ew) ==
    Fin(SumSeq([g \in DOMAIN ew.gpoints |-> ew.gweight[g] * Abs2(ew.ion_exp[g])]))

ewald_ion(c, ew) == XAdd(ion_ion_real(c, ew), ion_ion_rec(ew))

\* the attributes of the object before __init__ has set any
NoEwald ==
    [latvec |-> <<>>, atom_coords |-> <<>>, atom_charges |-> <<>>,
     lattice_displacements |-> <<>>, alpha |-> NaN, gpoints |-> <<>>,
     gweight |-> <<>>, ion_exp |-> <<>>, ijconst |-> NaN, squareconst |-> NaN,
     i_sum |-> 0, ii_const |-> NaN, e_single_test |-> NaN, ion_ion |-> NaN]

\* the object after set_lattice_displacements and the reciprocal setup, before
\* set_ewald_constants
SetUpReciprocal(c, ewald_gmax, nlatvec) ==
    LET alpha == Alpha(c)
        gpoints == GPoints(c, alpha, ewald_gmax)
    IN  [NoEwald EXCEPT
            !.latvec = c.latvec,
            !.atom_coords = c.atom_coords,
            !.atom_charges = c.atom_charges,
            !.lattice_displacements = set_lattice_displacements(nlatvec, c.latvec),
            !.alpha = alpha,
            !.gpoints = gpoints,
            !.gweight = GWeights(c, alpha, gpoints),
            !.ion_exp = IonExp(c, gpoints)]

\* set_ewald_constants: the constants and the values its closures capture
set_ewald_constants(c, ew0) ==
    LET i_sum == SumSeq(c.atom_charges)
        ii_sum2 == SumSeq([I \in DOMAIN c.atom_charges |->
                              c.atom_charges[I] * c.atom_charges[I]])
        ii_sum == (i_sum * i_sum - ii_sum2) \div 2
        ijconst == IJConst(c, ew0.alpha)
        squareconst == XAdd(MinusAlphaOverSqrtPi(ew0.alpha), XHalf(ijconst))
    IN  [ew0 EXCEPT
            !.ijconst = ijconst,
            !.squareconst = squareconst,
            !.i_sum = i_sum,
            !.ii_const = XAdd(XScale(ii_sum, ijconst), XScale(ii_sum2, squareconst)),
            !.e_single_test = XAdd(XScale(-i_sum, ijconst), squareconst),
            !.ion_ion = ewald_ion(c, ew0)]

\* self.ee_const(ne), self.ei_const(ne), self.e_single(ne)
ee_const(ew, ne) ==
    XAdd(XScale((ne * (ne - 1)) \div 2, ew.ijconst), XScale(ne, ew.squareconst))
ei_const(ew, ne) == XScale(-ne * ew.i_sum, ew.ijconst)
e_single(ew, ne) ==
    XAdd(XAdd(XScale(ne - 1, ew.ijconst), XScale(-ew.i_sum, ew.ijconst)),
         ew.squareconst)

-----------------------------------------------------------------------------
(* Ewald.ewald_electron: the parts, for a batch cfg of shape (nconf, nelec, 3) *)

NConf(cfg) == cfg.shape[1]
NElec(cfg) == cfg.shape[2]

\* real-space electron-ion part, entry [k][i]
ei_real_separated(ew, cfg) ==
    [k \in 1..NConf(cfg) |-> [i \in 1..NElec(cfg) |->
        XSumSeq([I \in DOMAIN ew.atom_coords |->
            XScale(-ew.atom_charges[I],
                   RealSum(ew, MinimalImage(Sub3(ew.atom_coords[I], cfg.data[k][i]),
                                            ew.latvec)))])]]

\* ee_matrix[k, i, j]: the image sum of the pair, 0 on the diagonal
ee_matrix(ew, cfg, k, i, j) ==
    IF i = j THEN Fin(0)
    ELSE LET a == IF i < j THEN i ELSE j
             b == IF i < j THEN j ELSE i
         IN  RealSum(ew, MinimalImage(Sub3(cfg.data[k][a], cfg.data[k][b]), ew.latvec))

\* real-space electron-electron part, entry [k][i]; np.zeros(nelec), which
\* broadcasts over k, when nelec <= 1
ee_real_separated(ew, cfg) ==
    [k \in 1..NConf(cfg) |-> [i \in 1..NElec(cfg) |->
        IF NElec(cfg) > 1
        THEN XHalf(XSumSeq([j \in 1..NElec(cfg) |-> ee_matrix(ew, cfg, k, i, j)]))
        ELSE Fin(0)]]

\* e_expGdotR[k][i][g] = exp(i G_g . x_ki)
e_expGdotR(ew, x, g) == CExp(GdotR(ew.latvec, ew.gpoints[g], x))

\* sum_e_exp[k][g]
sum_e_exp(ew, cfg, k, g) ==
    CSumSeq([i \in 1..NElec(cfg) |-> e_expGdotR(ew, cfg.data[k][i], g)])

\* a faulty ee_recip_separated that subtracts nothing:
\* np.dot(coscos_sinsin, self.gweight)
ee_recip_separated_without_half(ew, cfg) ==
    [k \in 1..NConf(cfg) |-> [i \in 1..NElec(cfg) |->
        SumSeq([g \in DOMAIN ew.gpoints |->
            ReConjMul(sum_e_exp(ew, cfg, k, g), e_expGdotR(ew, cfg.data[k][i], g))
                * ew.gweight[g]])]]

\* np.dot(coscos_sinsin - 0.5, self.gweight), entry [k][i]
ee_recip_separated(ew, cfg) ==
    [k \in 1..NConf(cfg) |-> [i \in 1..NElec(cfg) |->
        SumSeq([g \in DOMAIN ew.gpoints |->
            ReConjMul(sum_e_exp(ew, cfg, k, g), e_expGdotR(ew, cfg.data[k][i], g))
                * ew.gweight[g] - ew.gweight[g] \div 2])]]

\* np.dot(np.real(-ion_exp.conj() * e_expGdotR), self.gweight), entry [k][i]
ei_recip_separated(ew, cfg) ==
    [k \in 1..NConf(cfg) |-> [i \in 1..NElec(cfg) |->
        SumSeq([g \in DOMAIN ew.gpoints |->
            -ReConjMul(ew.ion_exp[g], e_expGdotR(ew, cfg.data[k][i], g))
                * ew.gweight[g]])]]

\* a faulty "Combine parts" that keeps the electron-ion part alone in
\* ewalde_separated
CombineParts_ei_only(ew, cfg) ==
    LET eir == ei_real_separated(ew, cfg)
        eer == ee_real_separated(ew, cfg)
        eeg == ee_recip_separated(ew, cfg)
        eig == ei_recip_separated(ew, cfg)
        ei == Array2([k \in 1..NConf(cfg) |-> [i \in 1..NElec(cfg) |->
                  XAdd(eir[k][i], Fin(2 * eig[k][i]))]])
        ee == Array2([k \in 1..NConf(cfg) |-> [i \in 1..NElec(cfg) |->
                  XAdd(eer[k][i], Fin(1 * eeg[k][i]))]])
    IN  [has |-> TRUE, ei_separated |-> ei, ee_separated |-> ee,
         ewalde_separated |-> ei]

\* "Combine parts": the three arrays kept on the object
CombineParts(ew, cfg) ==
    LET eir == ei_real_separated(ew, cfg)
        eer == ee_real_separated(ew, cfg)
        eeg == ee_recip_separated(ew, cfg)
        eig == ei_recip_separated(ew, cfg)
        ei == Array2([k \in 1..NConf(cfg) |-> [i \in 1..NElec(cfg) |->
                  XAdd(eir[k][i], Fin(2 * eig[k][i]))]])
        ee == Array2([k \in 1..NConf(cfg) |-> [i \in 1..NElec(cfg) |->
                  XAdd(eer[k][i], Fin(1 * eeg[k][i]))]])
    IN  [has |-> TRUE,
         ei_separated |-> ei,
         ee_separated |-> ee,
         ewalde_separated |-> Array2([k \in 1..NConf(cfg) |-> [i \in 1..NElec(cfg) |->
                                         XAdd(ei[k][i], ee[k][i])]])]

\* the object before any evaluation: the three attributes do not exist
NoSeparated ==
    [has |-> FALSE, ei_separated |-> <<>>, ee_separated |-> <<>>,
     ewalde_separated |-> <<>>]

\* self.gweight.sum()
GWeightSum(ew) == SumSeq(ew.gweight)

\* a faulty ee that leaves out nelec / 2 * self.gweight.sum()
ElectronEE_without_self(ew, sep) ==
    [k \in DOMAIN sep.ee_separated |-> XSumSeq(sep.ee_separated[k])]

\* ee = self.ee_separated.sum(axis=1) + nelec / 2 * self.gweight.sum(),
\* with nelec = ee_recip_separated.shape[1]
ElectronEE(ew, sep) ==
    [k \in DOMAIN sep.ee_separated |->
        XAdd(XSumSeq(sep.ee_separated[k]),
             Fin(Len(sep.ee_separated[k]) * (GWeightSum(ew) \div 2)))]

\* ei = self.ei_separated.sum(axis=1)
ElectronEI(sep) ==
    [k \in DOMAIN sep.ei_separated |-> XSumSeq(sep.ei_separated[k])]

-----------------------------------------------------------------------------
(* The caller's arrays *)

\* where the i-th mobile particle of a configuration may sit: the first on
\* the first fixed particle or one grid step from it along x; the others one
\* grid step from it along x or along y.  So two mobile particles may
\* coincide, one may sit on a fixed particle, and all may be apart.
Points(i) ==
    IF i = 1 THEN {<<0, 0, 0>>, <<1, 0, 0>>} ELSE {<<1, 0, 0>>, <<0, 1, 0>>}

\* where the test particle may sit: on a place of the second mobile particle,
\* or away from every particle
TestPoints == {<<0, 1, 0>>, <<1, 1, 0>>}

\* the batches of shape (nc, ne, 3)
BatchesOfShape(nc, ne) ==
    { [shape |-> <<nc, ne, 3>>, data |-> d] :
        d \in [1..nc -> { x \in [1..ne -> UNION { Points(i) : i \in 1..ne }] :
                             \A i \in 1..ne : x[i] \in Points(i) }] }

\* the batches of shape (nconf, nelec, 3) with nconf <= maxconf and
\* nelec <= maxelec, of at most maxpart positions
Batches(maxconf, maxelec, maxpart) ==
    UNION { BatchesOfShape(sh[1], sh[2]) :
            sh \in { t \in (1..maxconf) \X (0..maxelec) :
                        t[1] * t[2] <= maxpart } }

\* arrays whose shape is not (nconf, nelec, 3): two-dimensional, or with one
\* or two coordinates for each particle
Malformed ==
    { [shape |-> <<1, 3>>, data |-> << <<1, 0, 0>> >>],
      [shape |-> <<1, 1, 1>>, data |-> << << <<1>> >> >>],
      [shape |-> <<1, 1, 2>>, data |-> << << <<1, 0>> >> >>] }

\* the test-position arrays of shape (nconf, 3)
TestPositions(nc) ==
    { [shape |-> <<nc, 3>>, data |-> d] : d \in [1..nc -> TestPoints] }

EmptyBatch == [shape |-> <<1, 0, 3>>, data |-> << <<>> >>]
FirstTests(nc) == [shape |-> <<nc, 3>>, data |-> [k \in 1..nc |-> <<1, 1, 0>>]]
FirstTest == FirstTests(1)

-----------------------------------------------------------------------------
(* The sums of a call depend on the object and on the arrays handed to it  *)
(* and on nothing else.  They are tabulated once for the objects the       *)
(* constructor can complete and the arrays of the model, and the           *)
(* operations look them up; a call on any other object or array computes   *)
(* them afresh.                                                            *)

\* the object as the constructor completes it on cell c
Constructed(c) == set_ewald_constants(c, SetUpReciprocal(c, GMax, NLatVec))

Objects == { Constructed(c) : c \in { d \in Cells : ~InvRaises(d) } }

\* the batch with the test particle appended to every configuration
Appended(cfg, ep) ==
    [shape |-> <<NConf(cfg), NElec(cfg) + 1, 3>>,
     data |-> [k \in 1..NConf(cfg) |-> Append(cfg.data[k], ep.data[k])]]

\* the batches of the model
TabulatedBatches == Batches(MaxConf, MaxElec, MaxParticles)

\* f @@ <<>> is f with every value computed
CombinePartsTable ==
    [ew \in Objects |->
        [cfg \in TabulatedBatches |-> CombineParts(ew, cfg)] @@ <<>>] @@ <<>>

CombinedParts(ew, cfg) ==
    IF ew \in Objects /\ cfg \in TabulatedBatches
    THEN CombinePartsTable[ew][cfg]
    ELSE CombineParts(ew, cfg)

-----------------------------------------------------------------------------
(* The four evaluation operations.  Each gives the set of outcomes of one  *)
(* call: what it returns or raises, and the object and the caller's arrays *)
(* as the call leaves them.                                                *)

Raised(exc, acc, ew, sep, cfg, ep) ==
    [outcome |-> exc, accumulated |-> acc, ewald |-> ew, separated |-> sep,
     configs |-> cfg, epos |-> ep, value |-> <<>>]

Returned(val, ew, sep, cfg, ep) ==
    [outcome |-> "ok", accumulated |-> TRUE, ewald |-> ew, separated |-> sep,
     configs |-> cfg, epos |-> ep, value |-> val]

\* Ewald.ewald_electron.  A batch that is not three-dimensional fails the
\* unpacking of its shape, before anything is computed.  A batch
\* (nconf, nelec, ndim) with ndim # 3 fails at the latest in
\* np.dot(configs.configs, self.gpoints.T): whether the distance primitive
\* (outside this repository's files) and the real-space sums before that ran,
\* as NumPy's broadcasting lets them for ndim = 1, is open.  In both cases the
\* three self.*_separated assignments, which come last, are not reached.
ewald_electron(ew, sep, cfg, ep) ==
    IF Len(cfg.shape) # 3
    THEN {Raised("ValueError", FALSE, ew, sep, cfg, ep)}
    ELSE IF cfg.shape[3] # 3
    THEN {Raised("ValueError", acc, ew, sep, cfg, ep) : acc \in BOOLEAN}
    ELSE LET new == CombinedParts(ew, cfg)
         IN  {Returned(<<ElectronEE(ew, new), ElectronEI(new)>>, ew, new, cfg, ep)}

\* a faulty energy that answers from the arrays kept by the last full
\* evaluation when they have the shape of the batch
energy_from_cache(ew, sep, cfg, ep) ==
    { IF r.outcome # "ok" THEN r
      ELSE LET used == IF sep.has /\ sep.ee_separated # <<>>
                          /\ DOMAIN sep.ee_separated = DOMAIN r.separated.ee_separated
                          /\ DOMAIN sep.ee_separated[1] = DOMAIN r.separated.ee_separated[1]
                       THEN sep ELSE r.separated
               ee == ElectronEE(r.ewald, used)
               ei == ElectronEI(used)
           IN  [r EXCEPT !.separated = used, !.value =
                  <<[k \in DOMAIN ee |-> XAdd(ee[k], ee_const(r.ewald, NElec(cfg)))],
                    [k \in DOMAIN ei |-> XAdd(ei[k], ei_const(r.ewald, NElec(cfg)))],
                    XAdd(r.ewald.ion_ion, r.ewald.ii_const)>>] :
      r \in ewald_electron(ew, sep, cfg, ep) }

\* a faulty energy that uses up self.ion_ion: the first call returns it and
\* leaves 0 on the object
energy_consuming_ion_ion(ew, sep, cfg, ep) ==
    { IF r.outcome # "ok" THEN r
      ELSE [r EXCEPT !.ewald = [r.ewald EXCEPT !.ion_ion = Fin(0)], !.value =
              <<[k \in DOMAIN r.value[1] |->
                    XAdd(r.value[1][k], ee_const(r.ewald, NElec(cfg)))],
                [k \in DOMAIN r.value[2] |->
                    XAdd(r.value[2][k], ei_const(r.ewald, NElec(cfg)))],
                XAdd(r.ewald.ion_ion, r.ewald.ii_const)>>] :
      r \in ewald_electron(ew, sep, cfg, ep) }

\* Ewald.energy
energy(ew, sep, cfg, ep) ==
    { IF r.outcome # "ok" THEN r
      ELSE [r EXCEPT !.value =
              <<[k \in DOMAIN r.value[1] |->
                    XAdd(r.value[1][k], ee_const(r.ewald, NElec(cfg)))],
                [k \in DOMAIN r.value[2] |->
                    XAdd(r.value[2][k], ei_const(r.ewald, NElec(cfg)))],
                XAdd(r.ewald.ion_ion, r.ewald.ii_const)>>] :
      r \in ewald_electron(ew, sep, cfg, ep) }

\* Ewald.energy_separated: self.ewalde_separated does not exist before the
\* first full evaluation
energy_separated(ew, sep, cfg, ep) ==
    IF ~sep.has
    THEN {Raised("AttributeError", FALSE, ew, sep, cfg, ep)}
    ELSE {Returned([k \in DOMAIN sep.ewalde_separated |->
                      [i \in DOMAIN sep.ewalde_separated[k] |->
                          XAdd(e_single(ew, NElec(cfg)), sep.ewalde_separated[k][i])]],
                   ew, sep, cfg, ep)}

\* test_exp.conj() * e_expGdotR multiplies arrays of shapes (nconf, ng) and
\* (nconf, nelec, ng).  NumPy aligns shapes from the right: the rows of
\* test_exp run along the particle axis of e_expGdotR.  The product and the
\* addition of its np.dot to Vtest[:, :-1] go through when nconf = 1 (the one
\* row is repeated for every particle) and when nelec = nconf (row j meets
\* particle j of every configuration); else one of the two raises ValueError.
TestBroadcasts(cfg) == NConf(cfg) = 1 \/ NElec(cfg) = NConf(cfg)

\* the row of test_exp that meets particle j
TestRow(cfg, j) == IF NConf(cfg) = 1 THEN 1 ELSE j

\* Vtest of Ewald.energy_with_test_pos, for a batch of shape (nconf, nelec, 3)
Vtest(ew, cfg, ep) ==
    [k \in 1..NConf(cfg) |-> [j \in 1..(NElec(cfg) + 1) |->
        IF j <= NElec(cfg)
        THEN XAdd(XAdd(ew.ijconst,
                       RealSum(ew, MinimalImage(Sub3(cfg.data[k][j], ep.data[k]),
                                                ew.latvec))),
                  Fin(2 * SumSeq([g \in DOMAIN ew.gpoints |->
                        ReConjMul(e_expGdotR(ew, ep.data[TestRow(cfg, j)], g),
                                  e_expGdotR(ew, cfg.data[k][j], g)) * ew.gweight[g]])))
        ELSE XAdd(XAdd(ew.e_single_test,
                       XSumSeq([I \in DOMAIN ew.atom_coords |->
                          XScale(-ew.atom_charges[I],
                                 RealSum(ew, MinimalImage(Sub3(ew.atom_coords[I], ep.data[k]),
                                                          ew.latvec)))])),
                  Fin(2 * SumSeq([g \in DOMAIN ew.gpoints |->
                        -ReConjMul(ew.ion_exp[g], e_expGdotR(ew, ep.data[k], g))
                            * ew.gweight[g] + ew.gweight[g] \div 2])))]]

VtestTable ==
    [ew \in Objects |->
        [cfg \in { b \in TabulatedBatches : TestBroadcasts(b) } |->
            [ep \in TestPositions(NConf(cfg)) |-> Array2(Vtest(ew, cfg, ep))] @@ <<>>]
        @@ <<>>] @@ <<>>

TestPotential(ew, cfg, ep) ==
    IF ew \in Objects /\ cfg \in TabulatedBatches /\ TestBroadcasts(cfg)
          /\ ep \in TestPositions(NConf(cfg))
    THEN VtestTable[ew][cfg][ep]
    ELSE Vtest(ew, cfg, ep)

\* a faulty energy_with_test_pos that keeps the decomposition of its batch on
\* the object
energy_with_test_pos_caching(ew, sep, cfg, ep) ==
    IF Len(cfg.shape) # 3
    THEN {Raised("ValueError", FALSE, ew, sep, cfg, ep)}
    ELSE IF cfg.shape[3] # 3
    THEN {Raised("ValueError", acc, ew, sep, cfg, ep) : acc \in BOOLEAN}
    ELSE IF ~TestBroadcasts(cfg)
    THEN {Raised("ValueError", TRUE, ew, sep, cfg, ep)}
    ELSE {Returned(TestPotential(ew, cfg, ep), ew, CombinedParts(ew, cfg), cfg, ep)}

\* Ewald.energy_with_test_pos: Vtest is a local array, and a call that raises
\* leaves nothing behind
energy_with_test_pos(ew, sep, cfg, ep) ==
    IF Len(cfg.shape) # 3
    THEN {Raised("ValueError", FALSE, ew, sep, cfg, ep)}
    ELSE IF cfg.shape[3] # 3
    THEN {Raised("ValueError", acc, ew, sep, cfg, ep) : acc \in BOOLEAN}
    ELSE IF ~TestBroadcasts(cfg)
    THEN {Raised("ValueError", TRUE, ew, sep, cfg, ep)}
    ELSE {Returned(TestPotential(ew, cfg, ep), ew, sep, cfg, ep)}

-----------------------------------------------------------------------------
(* The state machine *)

NoRet == [op |-> "none", outcome |-> "none", accumulated |-> FALSE, value |-> <<>>]
NoFull == [has |-> FALSE, configs |-> EmptyBatch]
NoSeen ==
    [op |-> "none", configs |-> EmptyBatch, epos |-> FirstTest, full |-> NoFull,
     outcome |-> "none", value |-> <<>>, between |-> FALSE]

InitWith(u) ==
    /\ cell \in u.cells
    /\ status = "new"
    /\ ewald = NoEwald
    /\ separated = NoSeparated
    /\ configs = EmptyBatch
    /\ epos = FirstTest
    /\ ret = NoRet
    /\ lastfull = NoFull
    /\ seen = NoSeen
    /\ universe = u

\* every cell of the model; batches, well-formed or not, of up to MaxConf
\* configurations of up to MaxElec mobile particles, of at most MaxElec
\* positions
Init ==
    InitWith([cells |-> Cells, maxconf |-> MaxConf, maxelec |-> MaxElec,
              maxpart |-> MaxElec,
              malformed |-> TRUE, remember |-> FALSE])

\* Ewald.__init__: np.linalg.inv raises on a singular lattice, after
\* set_lattice_displacements has run; otherwise the setup runs to its end
Construct ==
    /\ status = "new"
    /\ IF InvRaises(cell)
       THEN /\ status' = "LinAlgError"
            /\ ewald' = [NoEwald EXCEPT
                   !.latvec = cell.latvec,
                   !.atom_coords = cell.atom_coords,
                   !.atom_charges = cell.atom_charges,
                   !.lattice_displacements =
                       set_lattice_displacements(NLatVec, cell.latvec)]
       ELSE /\ status' = "ready"
            /\ ewald' = Constructed(cell)
    /\ UNCHANGED <<cell, separated, configs, epos, ret, lastfull, seen, universe>>

\* the caller takes what the last call gave and makes the batch for the next
\* call (the same again, or another), with test positions for as many
\* configurations: those it has if they fit, the first test point otherwise
NewBatch ==
    /\ status = "ready"
    /\ configs' \in Batches(universe.maxconf, universe.maxelec, universe.maxpart)
                       \cup (IF universe.malformed THEN Malformed ELSE {})
    /\ epos' = IF epos.shape[1] = configs'.shape[1] THEN epos
               ELSE FirstTests(configs'.shape[1])
    /\ ret' = NoRet
    /\ UNCHANGED <<cell, status, ewald, separated, lastfull, seen, universe>>

\* the caller takes what the last call gave and moves the test particles
NewTestPos ==
    /\ status = "ready"
    /\ epos' \in TestPositions(configs.shape[1])
    /\ ret' = NoRet
    /\ UNCHANGED <<cell, status, ewald, separated, configs, lastfull, seen,
                   universe>>

\* one call of operation op with outcome r
Call(op, r, full) ==
    /\ ewald' = r.ewald
    /\ separated' = r.separated
    /\ configs' = r.configs
    /\ epos' = r.epos
    /\ ret' = [op |-> op, outcome |-> r.outcome, accumulated |-> r.accumulated,
               value |-> r.value]
    /\ lastfull' = IF full /\ r.outcome = "ok"
                   THEN [has |-> TRUE, configs |-> configs] ELSE lastfull
    /\ seen' \in IF ~universe.remember THEN {seen}
                 ELSE IF seen.op = "none"
                 THEN {seen, [op |-> op, configs |-> configs,
                              epos |-> IF op = "energy_with_test_pos"
                                       THEN epos ELSE FirstTest,
                              full |-> lastfull, outcome |-> r.outcome,
                              value |-> r.value, between |-> FALSE]}
                 ELSE {[seen EXCEPT !.between = @ \/ configs # seen.configs]}
    /\ UNCHANGED <<cell, status, universe>>

EwaldElectron ==
    /\ status = "ready"
    /\ ret.op = "none"
    /\ \E r \in ewald_electron(ewald, separated, configs, epos) :
           Call("ewald_electron", r, TRUE)

Energy ==
    /\ status = "ready"
    /\ ret.op = "none"
    /\ \E r \in energy(ewald, separated, configs, epos) : Call("energy", r, TRUE)

EnergySeparated ==
    /\ status = "ready"
    /\ ret.op = "none"
    /\ \E r \in energy_separated(ewald, separated, configs, epos) :
           Call("energy_separated", r, FALSE)

EnergyWithTestPos ==
    /\ status = "ready"
    /\ ret.op = "none"
    /\ \E r \in energy_with_test_pos(ewald, separated, configs, epos) :
           Call("energy_with_test_pos", r, FALSE)

Next ==
    \/ Construct
    \/ NewBatch
    \/ NewTestPos
    \/ EwaldElectron
    \/ Energy
    \/ EnergySeparated
    \/ EnergyWithTestPos

Spec == Init /\ [][Next]_vars

\* the same program on the cubic cell with two fixed particles, watched by a
\* caller that uses well-formed batches of one configuration and at most one
\* mobile particle, and remembers one of its calls to compare later calls with
PureCells == { c \in Cells : c.latvec = CubicLattice.latvec /\ Len(c.atom_charges) = 2 }
InitPure ==
    InitWith([cells |-> PureCells, maxconf |-> 1, maxelec |-> 1, maxpart |-> 1,
              malformed |-> FALSE, remember |-> TRUE])
SpecPure == InitPure /\ [][Next]_vars

\* the same program on the cubic cell with one fixed particle, with
\* well-formed batches of up to MaxConf configurations of up to MaxElec
\* mobile particles, of at most MaxParticles positions: batches with as many
\* particles in a configuration as configurations are among them
BatchCells == { c \in Cells : c.latvec = CubicLattice.latvec /\ Len(c.atom_charges) = 1 }
InitBatch ==
    InitWith([cells |-> BatchCells, maxconf |-> MaxConf, maxelec |-> MaxElec,
              maxpart |-> MaxParticles, malformed |-> FALSE, remember |-> FALSE])
SpecBatch == InitBatch /\ [][Next]_vars

-----------------------------------------------------------------------------
(* Properties *)

\* the call just made returned
Returns(op) == ret.op = op /\ ret.outcome = "ok"

\* the batch in hand is the one of the most recent full evaluation
AfterFull == lastfull.has /\ lastfull.configs = configs

\* e_single(Ne) + ei_separated[k,i] + ee_separated[k,i], from the parts of
\* the sums over cfg
PerParticle(ew, cfg) ==
    LET eir == ei_real_separated(ew, cfg)
        eig == ei_recip_separated(ew, cfg)
        eer == ee_real_separated(ew, cfg)
        eeg == ee_recip_separated(ew, cfg)
    IN  [k \in 1..NConf(cfg) |-> [i \in 1..NElec(cfg) |->
            XAdd(e_single(ew, NElec(cfg)),
                 XAdd(XAdd(eir[k][i], Fin(2 * eig[k][i])),
                      XAdd(eer[k][i], Fin(eeg[k][i]))))]]

\* C1: when the most recent full evaluation (energy or ewald_electron) was
\* on the batch in hand, energy_separated returns, for every configuration k
\* and particle i, e_single(Ne) + ei_separated[k,i] + ee_separated[k,i] of
\* that batch; before any full evaluation it returns nothing and raises.
C1_SeparatedAfterFull ==
    ret.op = "energy_separated" =>
        /\ AfterFull =>
              ret.outcome = "ok" /\ ret.value = PerParticle(ewald, configs)
        /\ ~lastfull.has =>
              ret.outcome = "AttributeError" /\ ret.value = <<>>

C1_Witness ==
    /\ Returns("energy_separated")
    /\ AfterFull
    /\ NElec(configs) = 2
    /\ \A i \in 1..2 : IsFin(ret.value[1][i])

\* the call just made is the remembered operation on the remembered arguments
SameCall ==
    /\ ret.op # "none"
    /\ seen.op = ret.op
    /\ seen.configs = configs
    /\ ret.op = "energy_with_test_pos" => seen.epos = epos

\* and it ended as the remembered call did
SameAnswer == seen.outcome = ret.outcome /\ seen.value = ret.value

\* C2 as stated: every evaluation operation, energy_separated included,
\* gives equal results on equal arguments, whatever was called in between.
C2_EqualArgumentsEqualResults == SameCall => SameAnswer

\* C2: energy, ewald_electron and energy_with_test_pos give equal results
\* on equal arguments, whatever was called in between; energy_separated
\* gives equal results on equal arguments when the most recent full
\* evaluation before both calls was on the same batch (or there was none
\* before either).
C2_PureGivenLastFull ==
    SameCall /\ (ret.op = "energy_separated" => seen.full = lastfull)
        => SameAnswer

C2_Witness ==
    /\ SameCall
    /\ seen.between
    /\ Returns("energy_separated")
    /\ seen.full = lastfull
    /\ NElec(lastfull.configs) = 1
    /\ NElec(configs) = 1
    /\ configs # lastfull.configs

\* the array ee + ei of energy(cfg)
Total(ew, cfg) ==
    LET r == CHOOSE r \in energy(ew, NoSeparated, cfg, FirstTest) : TRUE
    IN  [k \in 1..NConf(cfg) |-> XAdd(r.value[1][k], r.value[2][k])]

\* C3: on a cell that is not degenerate, right after a full evaluation of
\* the batch, the per-particle values of energy_separated sum, in every
\* configuration, to ee + ei of energy on that batch.
C3_DecompositionSumsToTotal ==
    Returns("energy_separated") /\ AfterFull /\ ~Degenerate(cell) =>
        \A k \in 1..NConf(configs) :
            XSumSeq(ret.value[k]) = Total(ewald, configs)[k]

\* C4 as stated: with one mobile particle in each configuration, the ee
\* returned by ewald_electron is exactly 0.
C4_SingleParticleEEIsZero ==
    Returns("ewald_electron") /\ NElec(configs) = 1 =>
        \A k \in 1..NConf(configs) : ret.value[1][k] = Fin(0)

\* C4: with one mobile particle in each configuration, the real-space part
\* of ee is exactly 0 and the ee returned by ewald_electron is
\* gweight.sum(), the reciprocal-space term of the particle with itself,
\* wherever the particle is.
C4_SingleParticleEEIsSelfTerm ==
    Returns("ewald_electron") /\ NElec(configs) = 1 =>
        \A k \in 1..NConf(configs) :
            /\ ee_real_separated(ewald, configs)[k][1] = Fin(0)
            /\ ret.value[1][k] = Fin(GWeightSum(ewald))

C4_Witness ==
    /\ Returns("ewald_electron")
    /\ NElec(configs) = 1
    /\ NConf(configs) = 2
    /\ configs.data[1] # configs.data[2]
    /\ GWeightSum(ewald) > 0

\* C5: in every configuration of every batch, the columns of
\* energy_with_test_pos(c, t) sum to the increase of ee + ei of energy from c to c with t appended
\* (stated as: the sum added to ee + ei of c is ee + ei of c with t; where
\* particles coincide both sides are the same infinity or both undefined).
C5_TestPosIsIncrement ==
    Returns("energy_with_test_pos") =>
        \A k \in 1..NConf(configs) :
            XAdd(XSumSeq(ret.value[k]), Total(ewald, configs)[k])
                = Total(ewald, Appended(configs, epos))[k]

\* C6: a call of energy_with_test_pos leaves the three arrays kept by the
\* last full evaluation, the setup data (ion data included) and the
\* positions in its two arguments as they were, so that a later
\* energy_separated answers as it would have without the call.
C6_TestPosChangesNothing ==
    [][ret'.op = "energy_with_test_pos" =>
          /\ separated' = separated
          /\ ewald' = ewald
          /\ configs' = configs
          /\ epos' = epos
          /\ lastfull' = lastfull]_vars

C6_Witness ==
    /\ Returns("energy_with_test_pos")
    /\ separated.has
    /\ NElec(configs) = 1
    /\ NElec(lastfull.configs) = 1
    /\ lastfull.configs # configs

\* C7: once the object is constructed no call changes anything set up by
\* the constructor (alpha, lattice_displacements, gpoints, gweight, ion_exp,
\* ion_ion, the constants and what the constant functions are made of), and
\* the ii returned by energy is ion_ion + ii_const of the construction on
\* every call.
C7_SetupNeverChanges ==
    [][status = "ready" =>
          /\ ewald' = ewald
          /\ ret'.op = "energy" /\ ret'.outcome = "ok" =>
                ret'.value[3] = XAdd(ewald.ion_ion, ewald.ii_const)]_vars

C7_Witness ==
    /\ Returns("energy")
    /\ NElec(configs) = 2
    /\ Len(ewald.atom_charges) = 2
    /\ IsFin(ret.value[3])
    /\ ret.value[3] # Fin(0)

\* C8: construction on a degenerate lattice ends in a GeometryError, and no
\* construction completes with an alpha that is infinite or NaN.
C8_DegenerateLatticeIsGeometryError ==
    /\ Degenerate(cell) /\ status # "new" => status = "GeometryError"
    /\ status = "ready" => IsFin(ewald.alpha)

\* some image-shifted distance between the points x and y is exactly 0
ZeroDistance(ew, x, y) ==
    \E l \in DOMAIN ew.lattice_displacements :
        Norm2(Add3(MinimalImage(Sub3(x, y), ew.latvec),
                   ew.lattice_displacements[l])) = 0

\* r = 0 occurs in a real-space sum of ewald_electron on cfg
BatchCoincidence(ew, cfg) ==
    \E k \in 1..NConf(cfg) : \E i \in 1..NElec(cfg) :
        \/ \E I \in DOMAIN ew.atom_coords :
               ZeroDistance(ew, ew.atom_coords[I], cfg.data[k][i])
        \/ \E j \in 1..NElec(cfg) :
               j # i /\ ZeroDistance(ew, cfg.data[k][i], cfg.data[k][j])

\* r = 0 occurs in a real-space sum of energy_with_test_pos on cfg and ep
TestCoincidence(ew, cfg, ep) ==
    \E k \in 1..NConf(cfg) :
        \/ \E I \in DOMAIN ew.atom_coords :
               ZeroDistance(ew, ew.atom_coords[I], ep.data[k])
        \/ \E j \in 1..NElec(cfg) :
               ZeroDistance(ew, cfg.data[k][j], ep.data[k])

\* a batch of shape (nconf, nelec, 3)
WellShaped(cfg) == Len(cfg.shape) = 3 /\ cfg.shape[3] = 3

\* C9: on a cell that is not degenerate, when some image-shifted distance
\* is exactly 0 in a real-space sum, ewald_electron, energy and
\* energy_with_test_pos end in an error and return nothing.
C9_ZeroDistanceIsDomainError ==
    ~Degenerate(cell) =>
        /\ ret.op \in {"ewald_electron", "energy"} /\ WellShaped(configs)
                /\ BatchCoincidence(ewald, configs)
              => ret.outcome # "ok"
        /\ ret.op = "energy_with_test_pos" /\ WellShaped(configs)
                /\ TestCoincidence(ewald, configs, epos)
              => ret.outcome # "ok"

\* C10: on a cell that is not degenerate, ewald_electron and energy, given
\* a batch whose shape is not (nconf, nelec, 3), raise before anything is
\* accumulated, return nothing and leave the three arrays kept by the last
\* full evaluation as they were.
C10_ShapeMismatchFailsFast ==
    [][ret'.op \in {"ewald_electron", "energy"} /\ ~WellShaped(configs)
            /\ ~Degenerate(cell) =>
          /\ ret'.outcome # "ok"
          /\ ~ret'.accumulated
          /\ ret'.value = <<>>
          /\ separated' = separated]_vars

\* configuration k of a batch as a batch of its own, and its test position
Single(cfg, k) == [shape |-> <<1, NElec(cfg), 3>>, data |-> <<cfg.data[k]>>]
SingleTest(ep, k) == [shape |-> <<1, 3>>, data |-> <<ep.data[k]>>]

\* what a returned value holds for configuration k
OutputFor(op, value, k) ==
    CASE op = "ewald_electron" -> <<value[1][k], value[2][k]>>
      [] op = "energy" -> <<value[1][k], value[2][k], value[3]>>
      [] OTHER -> value[k]

\* the outcome of op on configuration k alone (energy_separated: right after
\* a full evaluation of configuration k alone)
Alone(op, ew, cfg, ep, k) ==
    LET one == Single(cfg, k)
        t == SingleTest(ep, k)
    IN  CHOOSE r \in
            (CASE op = "ewald_electron" -> ewald_electron(ew, NoSeparated, one, t)
               [] op = "energy" -> energy(ew, NoSeparated, one, t)
               [] op = "energy_separated" ->
                      energy_separated(ew, CombinedParts(ew, one), one, t)
               [] OTHER -> energy_with_test_pos(ew, NoSeparated, one, t)) : TRUE

\* C11: on a cell that is not degenerate, what ewald_electron, energy,
\* energy_separated (right after a full evaluation of the batch) and
\* energy_with_test_pos give for configuration k of a batch is what they
\* give for configuration k alone, as a batch of one configuration: the
\* other configurations and their number change nothing.
C11_ConfigurationsAreIndependent ==
    /\ ret.op # "none"
    /\ WellShaped(configs)
    /\ ~Degenerate(cell)
    /\ ret.op = "energy_separated" => AfterFull
    => \A k \in 1..NConf(configs) :
           LET r == Alone(ret.op, ewald, configs, epos, k)
           IN  /\ ret.outcome = r.outcome
               /\ ret.outcome = "ok" =>
                      OutputFor(ret.op, ret.value, k) = OutputFor(ret.op, r.value, 1)

\* C12: on a cell with exactly one fixed particle, once the object is
\* constructed, the real-space part of ewald_ion is exactly 0 and ion_ion is
\* the reciprocal-space part alone.
C12_SingleIonRealPartIsZero ==
    status = "ready" /\ Len(cell.atom_charges) = 1 =>
        /\ ion_ion_real(cell, ewald) = Fin(0)
        /\ ewald.ion_ion = ion_ion_rec(ewald)

C12_Witness ==
    /\ status = "ready"
    /\ Len(cell.atom_charges) = 1
    /\ ~Degenerate(cell)
    /\ IsFin(ewald.ion_ion)
    /\ ewald.ion_ion = Fin(GWeightSum(ewald))
    /\ ewald.ion_ion # Fin(0)

\* C13: of every integer triple m # (0,0,0) of [-ewald_gmax, ewald_gmax]^3
\* exactly one of m and -m passes the half-space test, and (0,0,0) does not
\* pass; on a cell that is not degenerate, self.gpoints of the constructed
\* object holds no G twice, does not hold G = 0, and holds exactly one of
\* m and -m for every m # (0,0,0) whose weight passes the cut.
C13_HalfSpaceKeepsOneOfEachPair ==
    status = "ready" =>
        LET mesh == { MeshGrid(GMax)[t] : t \in DOMAIN MeshGrid(GMax) }
            neg(m) == <<-m[1], -m[2], -m[3]>>
            kept == { ewald.gpoints[g] : g \in DOMAIN ewald.gpoints }
        IN  /\ \A m \in mesh :
                   m # <<0, 0, 0>> => (positive_octants(m) # positive_octants(neg(m)))
            /\ ~positive_octants(<<0, 0, 0>>)
            /\ ~Degenerate(cell) =>
                  /\ <<0, 0, 0>> \notin kept
                  /\ Cardinality(kept) = Len(ewald.gpoints)
                  /\ \A m \in mesh :
                         m # <<0, 0, 0>> /\ bigweight(GWeightOf(cell, ewald.alpha, m))
                             => ((m \in kept) # (neg(m) \in kept))

C13_Witness ==
    /\ status = "ready"
    /\ ~Degenerate(cell)
    /\ Len(ewald.gpoints)
          = ((2 * GMax + 1) * (2 * GMax + 1) * (2 * GMax + 1) - 1) \div 2
    /\ \E g \in DOMAIN ewald.gpoints : ewald.gpoints[g] = <<0, 0, 1>>
    /\ \E g \in DOMAIN ewald.gpoints : ewald.gpoints[g] = <<0, 1, -1>>
    /\ \E g \in DOMAIN ewald.gpoints : ewald.gpoints[g] = <<1, -1, -1>>

\* sum over the retained G of gweight(G) * |S_e(G)|^2 for configuration k,
\* S_e(G) the sum of exp(i G.x) over the particles of the configuration
StructureFactorSum(ew, cfg, k) ==
    SumSeq([g \in DOMAIN ew.gpoints |->
               ew.gweight[g] * Abs2(sum_e_exp(ew, cfg, k, g))])

\* C14: for every batch and every Ne, in every configuration k, the
\* per-particle reciprocal-space terms (with their 0.5 subtracted) and the
\* Ne/2 * gweight.sum() added back sum to the sum over the retained G of
\* gweight(G) * |S_e(G)|^2, and the ee returned by ewald_electron is the
\* real-space part plus that sum.
C14_ReciprocalEEIsStructureFactorSum ==
    Returns("ewald_electron") =>
        \A k \in 1..NConf(configs) :
            /\ SumSeq(ee_recip_separated(ewald, configs)[k])
                  + NElec(configs) * (GWeightSum(ewald) \div 2)
                  = StructureFactorSum(ewald, configs, k)
            /\ ret.value[1][k]
                  = XAdd(XSumSeq(ee_real_separated(ewald, configs)[k]),
                         Fin(StructureFactorSum(ewald, configs, k)))

C14_Witness ==
    /\ Returns("ewald_electron")
    /\ ~Degenerate(cell)
    /\ NConf(configs) = 2
    /\ NElec(configs) = 2
    /\ configs.data[1] # configs.data[2]
    /\ \A k \in 1..2 :
           /\ IsFin(ret.value[1][k])
           /\ StructureFactorSum(ewald, configs, k) > 0
           /\ StructureFactorSum(ewald, configs, k) # 2 * GWeightSum(ewald)

=============================================================================
